---------------------------- MODULE Spec2Model ----------------------------
(***************************************************************************)
(* Natural-order string comparison (src/src/natcmp.h).                     *)
(*                                                                         *)
(* A C string is modelled by the sequence of its bytes before the          *)
(* terminator; Buf(s) is the buffer the code reads, terminator included.   *)
(* A pointer into a buffer is the 0-based offset of the byte it points to. *)
(***************************************************************************)
EXTENDS Integers, Sequences, FiniteSets, TLC

(***************************************************************************)
(* Bounds of the model.                                                    *)
(***************************************************************************)
\* longest input string of the calls on two strings
MaxLen == 3
\* longest input string of the three-string specification
MaxLenT == 2
\* longest input string of the call followed statement by statement
MaxLenM == 2

\* the bytes inputs are drawn from: '0' '1' 'A' 'a' 'b'
Alphabet == {48, 49, 65, 97, 98}

RECURSIVE StringsUpTo(_)
StringsUpTo(n) ==
    IF n = 0 THEN {<<>>}
    ELSE LET shorter == StringsUpTo(n - 1)
         IN  shorter \cup {Append(s, c) : s \in {t \in shorter : Len(t) = n - 1},
                                          c \in Alphabet}

Strings == StringsUpTo(MaxLen)
StringsT == StringsUpTo(MaxLenT)
StringsM == StringsUpTo(MaxLenM)

(***************************************************************************)
(* Bytes, buffers and the C library functions the code calls.              *)
(***************************************************************************)
NUL == 0
\* the value of a pointer that was initialised to NULL and never written
NULLPTR == -1

Buf(s) == Append(s, NUL)
\* *(S + i)
At(S, i) == S[i + 1]

\* isdigit() of <ctype.h> in the "C" locale
IsDigit(c) == c >= 48 /\ c <= 57
\* tolower() in the "C" locale, as strncasecmp() applies it
ToLower(c) == IF c >= 65 /\ c <= 90 THEN c + 32 ELSE c

\* strncmp(A + a, B + b, n)
RECURSIVE Strncmp(_, _, _, _, _)
Strncmp(A, a, B, b, n) ==
    IF n = 0 THEN 0
    ELSE LET ca == At(A, a)
             cb == At(B, b)
         IN  IF ca # cb THEN ca - cb
             ELSE IF ca = NUL THEN 0
             ELSE Strncmp(A, a + 1, B, b + 1, n - 1)

\* strncmp() where the code calls strncasecmp(): no case folding
Strncasecmp_NoFold(A, a, B, b, n) == Strncmp(A, a, B, b, n)

\* strncasecmp(A + a, B + b, n)
RECURSIVE Strncasecmp(_, _, _, _, _)
Strncasecmp(A, a, B, b, n) ==
    IF n = 0 THEN 0
    ELSE LET ca == ToLower(At(A, a))
             cb == ToLower(At(B, b))
         IN  IF ca # cb THEN ca - cb
             ELSE IF ca = NUL THEN 0
             ELSE Strncasecmp(A, a + 1, B, b + 1, n - 1)

(***************************************************************************)
(* natcmp_nondigit_cmp_ascii                                               *)
(***************************************************************************)
\* the scanning loops without the test for the terminator: !isdigit(*p)
NondigitCond_NoNul(c) == ~IsDigit(c)

\* the condition of the two scanning loops: *p && !isdigit(*p)
NondigitCond(c) == c # NUL /\ ~IsDigit(c)

\* while (*pa && !isdigit(*pa)) pa++;
RECURSIVE ScanNondigit(_, _)
ScanNondigit(S, p) ==
    IF NondigitCond(At(S, p)) THEN ScanNondigit(S, p + 1) ELSE p

\* the length rule without its direction: the first argument is always less
NondigitResult_NoSide(cmp, len_a, len_b) ==
    IF cmp # 0 THEN (IF cmp < 0 THEN -1 ELSE 1)
    ELSE IF len_a # len_b THEN -1
    ELSE 0

\* the length rule left out: runs that agree on the shorter length are equal
NondigitResult_NoLength(cmp, len_a, len_b) ==
    IF cmp # 0 THEN (IF cmp < 0 THEN -1 ELSE 1) ELSE 0

\* the three-way result once the runs are measured and their common prefix is
\* compared; 0 means "equal, write the end pointers"
NondigitResult(cmp, len_a, len_b) ==
    IF cmp # 0 THEN (IF cmp < 0 THEN -1 ELSE 1)
    ELSE IF len_a # len_b THEN (IF len_a < len_b THEN -1 ELSE 1)
    ELSE 0

\* the end pointers written before the comparison, whatever its result
natcmp_nondigit_cmp_ascii_WritesFirst(A, a, B, b, end_a, end_b) ==
    LET pa == ScanNondigit(A, a)
        pb == ScanNondigit(B, b)
        len_a == pa - a
        len_b == pb - b
        cmp == Strncasecmp(A, a, B, b, IF len_a < len_b THEN len_a ELSE len_b)
    IN  [res |-> NondigitResult(cmp, len_a, len_b), end_a |-> pa, end_b |-> pb]

\* the call natcmp_nondigit_cmp_ascii(A + a, B + b, &end_a, &end_b), where
\* end_a and end_b hold the given values before the call
natcmp_nondigit_cmp_ascii(A, a, B, b, end_a, end_b) ==
    LET pa == ScanNondigit(A, a)
        pb == ScanNondigit(B, b)
        len_a == pa - a
        len_b == pb - b
        cmp == Strncasecmp(A, a, B, b, IF len_a < len_b THEN len_a ELSE len_b)
        res == NondigitResult(cmp, len_a, len_b)
    IN  IF res # 0
        THEN [res |-> res, end_a |-> end_a, end_b |-> end_b]
        ELSE [res |-> 0, end_a |-> pa, end_b |-> pb]

(***************************************************************************)
(* strcmp_cb, the case-sensitive strategy of the test suite                *)
(***************************************************************************)
RECURSIVE StrcmpScan(_, _, _, _)
StrcmpScan(A, p, B, q) ==
    LET cp == At(A, p)
        cq == At(B, q)
    IN  IF cp # NUL /\ cq # NUL /\ ~IsDigit(cp) /\ ~IsDigit(cq) /\ cp = cq
        THEN StrcmpScan(A, p + 1, B, q + 1)
        ELSE <<p, q>>

strcmp_cb(A, a, B, b, end_a, end_b) ==
    LET pq == StrcmpScan(A, a, B, b)
        cp == At(A, pq[1])
        cq == At(B, pq[2])
    IN  [res |-> IF IsDigit(cp) \/ IsDigit(cq) THEN 0
                 ELSE IF cp = cq THEN 0
                 ELSE IF cp < cq THEN -1 ELSE 1,
         end_a |-> pq[1], end_b |-> pq[2]]

(***************************************************************************)
(* natcmp                                                                  *)
(***************************************************************************)
\* the strategies a caller passes
Strategies == {"NULL", "natcmp_nondigit_cmp_ascii", "strcmp_cb"}

\* the wrong default: the case-sensitive strategy
DefaultCompare_CaseSensitive(compare) ==
    IF compare = "NULL" THEN "strcmp_cb" ELSE compare

\* if (!compare) compare = natcmp_nondigit_cmp_ascii;
DefaultCompare(compare) ==
    IF compare = "NULL" THEN "natcmp_nondigit_cmp_ascii" ELSE compare

\* compare(a, b, &end_a, &end_b) through the function pointer
CallCompare(compare, A, a, B, b, end_a, end_b) ==
    IF compare = "strcmp_cb"
    THEN strcmp_cb(A, a, B, b, end_a, end_b)
    ELSE natcmp_nondigit_cmp_ascii(A, a, B, b, end_a, end_b)

\* the condition of natcmp_skip_leading_zeros, given *(s) and (s)[1]
LeadingZeroCond(c0, c1) == c0 = 48 /\ c1 # NUL /\ IsDigit(c1)

RECURSIVE SkipLeadingZeros(_, _)
SkipLeadingZeros(S, s) ==
    IF LeadingZeroCond(At(S, s), At(S, s + 1))
    THEN SkipLeadingZeros(S, s + 1)
    ELSE s

\* a digit skipping loop that never advances
DigitCond_Never(c) == FALSE

\* the condition of natcmp_skip_digits
DigitCond(c) == c # NUL /\ IsDigit(c)

RECURSIVE SkipDigits(_, _)
SkipDigits(S, s) ==
    IF DigitCond(At(S, s)) THEN SkipDigits(S, s + 1) ELSE s

\* the digit segment starting at s: head, digits (past the leading zeros), tail
DigitSegment(S, s) ==
    LET digits == SkipLeadingZeros(S, s)
    IN  [head |-> s, digits |-> digits, tail |-> SkipDigits(S, digits)]

\* the comparison of the lengths with the leading zeros left out
DigitResult_NoZeros(A, an, B, bn) ==
    LET an_len == an.tail - an.digits
        bn_len == bn.tail - bn.digits
    IN  IF an_len # bn_len THEN (IF an_len < bn_len THEN -1 ELSE 1)
        ELSE LET cmp == Strncmp(A, an.digits, B, bn.digits, an_len)
             IN  IF cmp # 0 THEN (IF cmp < 0 THEN -1 ELSE 1) ELSE 0

\* the comparison of two digit segments by their lengths alone, the digits
\* themselves never looked at
DigitResult_LengthOnly(A, an, B, bn) ==
    LET an_len == an.tail - an.digits
        bn_len == bn.tail - bn.digits
    IN  IF an_len # bn_len THEN (IF an_len < bn_len THEN -1 ELSE 1)
        ELSE LET an_all == an.tail - an.head
                 bn_all == bn.tail - bn.head
             IN  IF an_all # bn_all
                 THEN (IF an_all < bn_all THEN -1 ELSE 1)
                 ELSE 0

\* the comparison of two digit segments; 0 means "same, go on after them"
DigitResult(A, an, B, bn) ==
    LET an_len == an.tail - an.digits
        bn_len == bn.tail - bn.digits
    IN  IF an_len # bn_len THEN (IF an_len < bn_len THEN -1 ELSE 1)
        ELSE LET cmp == Strncmp(A, an.digits, B, bn.digits, an_len)
             IN  IF cmp # 0 THEN (IF cmp < 0 THEN -1 ELSE 1)
                 ELSE LET an_all == an.tail - an.head
                          bn_all == bn.tail - bn.head
                      IN  IF an_all # bn_all
                          THEN (IF an_all < bn_all THEN -1 ELSE 1)
                          ELSE 0

\* the two tests after the loop with their results exchanged
AfterLoop_Swapped(A, a, B, b) ==
    IF At(B, b) # NUL THEN 1
    ELSE IF At(A, a) # NUL THEN -1
    ELSE 0

\* the code after the loop
AfterLoop(A, a, B, b) ==
    IF At(B, b) # NUL THEN -1
    ELSE IF At(A, a) # NUL THEN 1
    ELSE 0

\* the digit side greater than the non-digit side
ClassResult_Inverted(isdigit_a) == IF isdigit_a THEN 1 ELSE -1

\* return isdigit_a ? -1 : 1;
ClassResult(isdigit_a) == IF isdigit_a THEN -1 ELSE 1

RECURSIVE NatcmpLoop(_, _, _, _, _)

\* one iteration from the classification test on, the cursors being at a and b
NatcmpDigits(A, a, B, b, isdigit_a, isdigit_b, compare) ==
    IF isdigit_a # isdigit_b THEN ClassResult(isdigit_a)
    ELSE LET an == DigitSegment(A, a)
             bn == DigitSegment(B, b)
             r == DigitResult(A, an, B, bn)
         IN  IF r # 0 THEN r
             ELSE NatcmpLoop(A, an.tail, B, bn.tail, compare)

\* while (*a && *b) { ... } and the code after it
NatcmpLoop(A, a, B, b, compare) ==
    IF At(A, a) # NUL /\ At(B, b) # NUL
    THEN LET isdigit_a == IsDigit(At(A, a))
             isdigit_b == IsDigit(At(B, b))
         IN  IF ~isdigit_a /\ ~isdigit_b
             THEN LET r == CallCompare(compare, A, a, B, b, NULLPTR, NULLPTR)
                  IN  IF r.res # 0 THEN (IF r.res < 0 THEN -1 ELSE 1)
                      ELSE IF At(A, r.end_a) = NUL \/ At(B, r.end_b) = NUL
                      THEN AfterLoop(A, r.end_a, B, r.end_b)
                      ELSE NatcmpDigits(A, r.end_a, B, r.end_b,
                                        IsDigit(At(A, r.end_a)),
                                        IsDigit(At(B, r.end_b)), compare)
             ELSE NatcmpDigits(A, a, B, b, isdigit_a, isdigit_b, compare)
    ELSE AfterLoop(A, a, B, b)

\* natcmp(x, y, compare)
natcmp(x, y, compare) ==
    NatcmpLoop(Buf(x), 0, Buf(y), 0, DefaultCompare(compare))


(***************************************************************************)
(* State.  x, y, z are the caller's strings.  r records the results of the *)
(* calls made on them.  The remaining variables are the execution state of *)
(* one call natcmp(x, y, compare), followed statement by statement.        *)
(***************************************************************************)
VARIABLES x, y, z, r, compare, pc, a, b, fr, ret, rd, steps, it

vars == <<x, y, z, r, compare, pc, a, b, fr, ret, rd, steps, it>>
callvars == <<compare, pc, a, b, fr, ret, rd, steps, it>>

\* no call made yet
NoResult ==
    [op |-> "none", xy |-> 0, yx |-> 0, yz |-> 0, xz |-> 0, ascii |-> 0,
     res |-> 0, end_a |-> NULLPTR, end_b |-> NULLPTR]

\* the locals of natcmp and of natcmp_nondigit_cmp_ascii before they are set
NoFrame ==
    [isdigit_a |-> FALSE, isdigit_b |-> FALSE,
     end_a |-> NULLPTR, end_b |-> NULLPTR, res |-> 0,
     pa |-> 0, pb |-> 0, len_a |-> 0, len_b |-> 0, n |-> 0, i |-> 0, cmp |-> 0,
     an |-> [head |-> 0, digits |-> 0, tail |-> 0],
     bn |-> [head |-> 0, digits |-> 0, tail |-> 0]]

\* no iteration of the main loop begun: n counts the iterations, a and b are
\* the cursors at the beginning of the current one
NoIteration == [n |-> 0, a |-> 0, b |-> 0]

\* no call of natcmp is being followed
CallIdle ==
    /\ compare = "NULL"
    /\ pc = "idle"
    /\ a = 0
    /\ b = 0
    /\ fr = NoFrame
    /\ ret = 0
    /\ rd = {}
    /\ steps = 0
    /\ it = NoIteration

(***************************************************************************)
(* Two strings: the calls of the test suite on a pair (x, y).              *)
(***************************************************************************)
PairInit ==
    /\ x \in Strings
    /\ y \in Strings
    /\ z = <<>>
    /\ r = NoResult
    /\ CallIdle

\* natcmp(x, y, NULL), natcmp(y, x, NULL) and
\* natcmp(x, y, natcmp_nondigit_cmp_ascii)
CompareNatcmp ==
    /\ r.op = "none"
    /\ r' = [NoResult EXCEPT !.op = "natcmp",
                             !.xy = natcmp(x, y, "NULL"),
                             !.yx = natcmp(y, x, "NULL"),
                             !.ascii = natcmp(x, y, "natcmp_nondigit_cmp_ascii")]
    /\ UNCHANGED <<x, y, z>>
    /\ UNCHANGED callvars

\* natcmp_nondigit_cmp_ascii(x, y, &end_a, &end_b) with end_a = end_b = NULL
CompareNondigit ==
    /\ r.op = "none"
    /\ LET nd == natcmp_nondigit_cmp_ascii(Buf(x), 0, Buf(y), 0, NULLPTR, NULLPTR)
       IN  r' = [NoResult EXCEPT !.op = "nondigit", !.res = nd.res,
                                 !.end_a = nd.end_a, !.end_b = nd.end_b]
    /\ UNCHANGED <<x, y, z>>
    /\ UNCHANGED callvars

PairNext == CompareNatcmp \/ CompareNondigit

SpecPair == PairInit /\ [][PairNext]_vars

(***************************************************************************)
(* Three strings: the default-strategy comparisons among x, y and z.       *)
(***************************************************************************)
TripleInit ==
    /\ x \in StringsT
    /\ y \in StringsT
    /\ z = <<>>
    /\ r = NoResult
    /\ CallIdle

\* natcmp(x, y, NULL)
CompareFirst ==
    /\ r.op = "none"
    /\ r' = [NoResult EXCEPT !.op = "natcmp2", !.xy = natcmp(x, y, "NULL")]
    /\ UNCHANGED <<x, y, z>>
    /\ UNCHANGED callvars

\* natcmp(y, t, NULL) and natcmp(x, t, NULL) for a third string t, when x
\* does not order after y (the other pairs are met with x and y exchanged)
CompareThird ==
    /\ r.op = "natcmp2"
    /\ r.xy <= 0
    /\ \E t \in StringsT :
          /\ z' = t
          /\ r' = [r EXCEPT !.op = "natcmp3",
                            !.yz = natcmp(y, t, "NULL"),
                            !.xz = natcmp(x, t, "NULL")]
    /\ UNCHANGED <<x, y>>
    /\ UNCHANGED callvars

TripleNext == CompareFirst \/ CompareThird

SpecTriple == TripleInit /\ [][TripleNext]_vars

(***************************************************************************)
(* One call natcmp(x, y, compare), statement by statement.                 *)
(*                                                                         *)
(* rd holds the reads of the last step, each <<buffer, offset, kind>>,     *)
(* kind "ahead" for the look-ahead (s)[1] and "deref" otherwise.  A read   *)
(* outside the buffer yields any byte.  steps counts the steps taken.      *)
(***************************************************************************)
\* the values a read of string s at offset i can yield
Peek(s, i) ==
    IF i \in 0 .. Len(s) THEN {At(Buf(s), i)} ELSE Alphabet \cup {NUL}

\* the longest run the model follows, in steps
StepCap == 40 * (MaxLenM + 1)

Step ==
    /\ steps < StepCap
    /\ steps' = steps + 1

CallInit ==
    /\ x \in StringsM
    /\ y \in StringsM
    /\ z = <<>>
    /\ r = NoResult
    /\ compare \in {"NULL", "natcmp_nondigit_cmp_ascii"}
    /\ pc = "entry"
    /\ a = 0
    /\ b = 0
    /\ fr = NoFrame
    /\ ret = 0
    /\ rd = {}
    /\ steps = 0
    /\ it = NoIteration

\* lines 127-130: if (!compare) compare = natcmp_nondigit_cmp_ascii;
Entry ==
    /\ pc = "entry"
    /\ Step
    /\ compare' = DefaultCompare(compare)
    /\ pc' = "loop"
    /\ rd' = {}
    /\ UNCHANGED <<x, y, z, r, a, b, fr, ret, it>>

\* line 132: while (*a && *b)
LoopTest ==
    /\ pc = "loop"
    /\ Step
    /\ \E ca \in Peek(x, a) :
          IF ca = NUL
          THEN /\ rd' = {<<"a", a, "deref">>}
               /\ pc' = "after"
               /\ it' = it
          ELSE \E cb \in Peek(y, b) :
                  /\ rd' = {<<"a", a, "deref">>, <<"b", b, "deref">>}
                  /\ pc' = IF cb = NUL THEN "after" ELSE "classify"
                  /\ it' = IF cb = NUL THEN it
                           ELSE [n |-> it.n + 1, a |-> a, b |-> b]
    /\ UNCHANGED <<x, y, z, r, compare, a, b, fr, ret>>

\* lines 133-139: classify *a and *b; on two non-digits enter the strategy
\* with end_a = end_b = NULL (lines 77-78: pa = a, pb = b)
Classify ==
    /\ pc = "classify"
    /\ Step
    /\ \E ca \in Peek(x, a), cb \in Peek(y, b) :
          /\ rd' = {<<"a", a, "deref">>, <<"b", b, "deref">>}
          /\ IF ~IsDigit(ca) /\ ~IsDigit(cb)
             THEN /\ fr' = [fr EXCEPT !.isdigit_a = FALSE, !.isdigit_b = FALSE,
                                      !.end_a = NULLPTR, !.end_b = NULLPTR,
                                      !.pa = a, !.pb = b]
                  /\ pc' = "scan_a"
             ELSE /\ fr' = [fr EXCEPT !.isdigit_a = IsDigit(ca),
                                      !.isdigit_b = IsDigit(cb)]
                  /\ pc' = "mismatch"
    /\ UNCHANGED <<x, y, z, r, compare, a, b, ret, it>>

\* lines 79-81: while (*pa && !isdigit(*pa)) pa++;
ScanA ==
    /\ pc = "scan_a"
    /\ Step
    /\ \E c \in Peek(x, fr.pa) :
          /\ rd' = {<<"a", fr.pa, "deref">>}
          /\ IF NondigitCond(c)
             THEN /\ fr' = [fr EXCEPT !.pa = @ + 1]
                  /\ pc' = "scan_a"
             ELSE /\ fr' = fr
                  /\ pc' = "scan_b"
    /\ UNCHANGED <<x, y, z, r, compare, a, b, ret, it>>

\* lines 82-84: while (*pb && !isdigit(*pb)) pb++;
ScanB ==
    /\ pc = "scan_b"
    /\ Step
    /\ \E c \in Peek(y, fr.pb) :
          /\ rd' = {<<"b", fr.pb, "deref">>}
          /\ IF NondigitCond(c)
             THEN /\ fr' = [fr EXCEPT !.pb = @ + 1]
                  /\ pc' = "scan_b"
             ELSE /\ fr' = fr
                  /\ pc' = "lengths"
    /\ UNCHANGED <<x, y, z, r, compare, a, b, ret, it>>

\* lines 86-90: len_a, len_b and the length strncasecmp is called with
Lengths ==
    /\ pc = "lengths"
    /\ Step
    /\ LET len_a == fr.pa - a
           len_b == fr.pb - b
       IN  fr' = [fr EXCEPT !.len_a = len_a, !.len_b = len_b,
                            !.n = IF len_a < len_b THEN len_a ELSE len_b,
                            !.i = 0]
    /\ pc' = "casecmp"
    /\ rd' = {}
    /\ UNCHANGED <<x, y, z, r, compare, a, b, ret, it>>

\* lines 89-90: strncasecmp(a, b, n), one byte of each string at a time
CaseCmp ==
    /\ pc = "casecmp"
    /\ Step
    /\ IF fr.i = fr.n
       THEN /\ fr' = [fr EXCEPT !.cmp = 0]
            /\ pc' = "verdict"
            /\ rd' = {}
       ELSE \E ca \in Peek(x, a + fr.i), cb \in Peek(y, b + fr.i) :
               /\ rd' = {<<"a", a + fr.i, "deref">>, <<"b", b + fr.i, "deref">>}
               /\ IF ToLower(ca) # ToLower(cb)
                  THEN /\ fr' = [fr EXCEPT !.cmp = ToLower(ca) - ToLower(cb)]
                       /\ pc' = "verdict"
                  ELSE IF ca = NUL
                  THEN /\ fr' = [fr EXCEPT !.cmp = 0]
                       /\ pc' = "verdict"
                  ELSE /\ fr' = [fr EXCEPT !.i = @ + 1]
                       /\ pc' = "casecmp"
    /\ UNCHANGED <<x, y, z, r, compare, a, b, ret, it>>

\* lines 91-104: the strategy's result; the end pointers are written on 0
Verdict ==
    /\ pc = "verdict"
    /\ Step
    /\ LET res == NondigitResult(fr.cmp, fr.len_a, fr.len_b)
       IN  fr' = IF res # 0
                 THEN [fr EXCEPT !.res = res]
                 ELSE [fr EXCEPT !.res = 0, !.end_a = fr.pa, !.end_b = fr.pb]
    /\ pc' = "returned"
    /\ rd' = {}
    /\ UNCHANGED <<x, y, z, r, compare, a, b, ret, it>>

\* lines 140-146: return on a non-zero result, else a = end_a; b = end_b;
Returned ==
    /\ pc = "returned"
    /\ Step
    /\ IF fr.res # 0
       THEN /\ ret' = IF fr.res < 0 THEN -1 ELSE 1
            /\ pc' = "done"
            /\ UNCHANGED <<a, b>>
       ELSE /\ a' = fr.end_a
            /\ b' = fr.end_b
            /\ pc' = "recheck"
            /\ ret' = ret
    /\ rd' = {}
    /\ UNCHANGED <<x, y, z, r, compare, fr, it>>

\* lines 147-153: break at the end of either string, else classify again
Recheck ==
    /\ pc = "recheck"
    /\ Step
    /\ \E ca \in Peek(x, a) :
          IF ca = NUL
          THEN /\ rd' = {<<"a", a, "deref">>}
               /\ pc' = "after"
               /\ fr' = fr
          ELSE \E cb \in Peek(y, b) :
                  /\ rd' = {<<"a", a, "deref">>, <<"b", b, "deref">>}
                  /\ IF cb = NUL
                     THEN /\ pc' = "after"
                          /\ fr' = fr
                     ELSE /\ pc' = "mismatch"
                          /\ fr' = [fr EXCEPT !.isdigit_a = IsDigit(ca),
                                              !.isdigit_b = IsDigit(cb)]
    /\ UNCHANGED <<x, y, z, r, compare, a, b, ret, it>>

\* lines 156-170: a digit against a non-digit decides; else the two digit
\* segments begin at the cursors
Mismatch ==
    /\ pc = "mismatch"
    /\ Step
    /\ IF fr.isdigit_a # fr.isdigit_b
       THEN /\ ret' = ClassResult(fr.isdigit_a)
            /\ pc' = "done"
            /\ fr' = fr
       ELSE /\ fr' = [fr EXCEPT !.an = [head |-> a, digits |-> a, tail |-> a],
                                !.bn = [head |-> b, digits |-> b, tail |-> b]]
            /\ pc' = "zeros_a"
            /\ ret' = ret
    /\ rd' = {}
    /\ UNCHANGED <<x, y, z, r, compare, a, b, it>>

\* one test of natcmp_skip_leading_zeros(s) on string str at offset s: the
\* reads made and whether the loop goes on; (s)[1] is read only after *(s)
\* was found to be '0'
LeadingZeroTests(buffer, str, s) ==
    {[rd |-> {<<buffer, s, "deref">>}, more |-> FALSE] :
        c0 \in {c \in Peek(str, s) : c # 48}}
    \cup
    {[rd |-> {<<buffer, s, "deref">>, <<buffer, s + 1, "ahead">>},
      more |-> LeadingZeroCond(48, c1)] :
        c1 \in IF 48 \in Peek(str, s) THEN Peek(str, s + 1) ELSE {}}

\* line 176: natcmp_skip_leading_zeros(an.tail);
ZerosA ==
    /\ pc = "zeros_a"
    /\ Step
    /\ \E t \in LeadingZeroTests("a", x, fr.an.tail) :
          /\ rd' = t.rd
          /\ IF t.more
             THEN /\ fr' = [fr EXCEPT !.an.tail = @ + 1]
                  /\ pc' = "zeros_a"
             ELSE /\ fr' = fr
                  /\ pc' = "zeros_b"
    /\ UNCHANGED <<x, y, z, r, compare, a, b, ret, it>>

\* lines 177-181: natcmp_skip_leading_zeros(bn.tail); then
\* an.digits = an.tail; bn.digits = bn.tail;
ZerosB ==
    /\ pc = "zeros_b"
    /\ Step
    /\ \E t \in LeadingZeroTests("b", y, fr.bn.tail) :
          /\ rd' = t.rd
          /\ IF t.more
             THEN /\ fr' = [fr EXCEPT !.bn.tail = @ + 1]
                  /\ pc' = "zeros_b"
             ELSE /\ fr' = [fr EXCEPT !.an.digits = fr.an.tail,
                                      !.bn.digits = fr.bn.tail]
                  /\ pc' = "digits_a"
    /\ UNCHANGED <<x, y, z, r, compare, a, b, ret, it>>

\* line 187: natcmp_skip_digits(an.tail);
DigitsA ==
    /\ pc = "digits_a"
    /\ Step
    /\ \E c \in Peek(x, fr.an.tail) :
          /\ rd' = {<<"a", fr.an.tail, "deref">>}
          /\ IF DigitCond(c)
             THEN /\ fr' = [fr EXCEPT !.an.tail = @ + 1]
                  /\ pc' = "digits_a"
             ELSE /\ fr' = fr
                  /\ pc' = "digits_b"
    /\ UNCHANGED <<x, y, z, r, compare, a, b, ret, it>>

\* line 188: natcmp_skip_digits(bn.tail);
DigitsB ==
    /\ pc = "digits_b"
    /\ Step
    /\ \E c \in Peek(y, fr.bn.tail) :
          /\ rd' = {<<"b", fr.bn.tail, "deref">>}
          /\ IF DigitCond(c)
             THEN /\ fr' = [fr EXCEPT !.bn.tail = @ + 1]
                  /\ pc' = "digits_b"
             ELSE /\ fr' = fr
                  /\ pc' = "numlen"
    /\ UNCHANGED <<x, y, z, r, compare, a, b, ret, it>>

\* lines 191-203: the lengths without the leading zeros decide, else strncmp
\* is called with that length
NumLen ==
    /\ pc = "numlen"
    /\ Step
    /\ LET an_len == fr.an.tail - fr.an.digits
           bn_len == fr.bn.tail - fr.bn.digits
       IN  IF an_len # bn_len
           THEN /\ ret' = IF an_len < bn_len THEN -1 ELSE 1
                /\ pc' = "done"
                /\ fr' = fr
           ELSE /\ fr' = [fr EXCEPT !.n = an_len, !.i = 0]
                /\ pc' = "numcmp"
                /\ ret' = ret
    /\ rd' = {}
    /\ UNCHANGED <<x, y, z, r, compare, a, b, it>>

\* lines 202-203: strncmp(an.digits, bn.digits, an.len), one byte of each
\* string at a time
NumCmp ==
    /\ pc = "numcmp"
    /\ Step
    /\ IF fr.i = fr.n
       THEN /\ fr' = [fr EXCEPT !.cmp = 0]
            /\ pc' = "numverdict"
            /\ rd' = {}
       ELSE \E ca \in Peek(x, fr.an.digits + fr.i),
               cb \in Peek(y, fr.bn.digits + fr.i) :
               /\ rd' = {<<"a", fr.an.digits + fr.i, "deref">>,
                         <<"b", fr.bn.digits + fr.i, "deref">>}
               /\ IF ca # cb
                  THEN /\ fr' = [fr EXCEPT !.cmp = ca - cb]
                       /\ pc' = "numverdict"
                  ELSE IF ca = NUL
                  THEN /\ fr' = [fr EXCEPT !.cmp = 0]
                       /\ pc' = "numverdict"
                  ELSE /\ fr' = [fr EXCEPT !.i = @ + 1]
                       /\ pc' = "numcmp"
    /\ UNCHANGED <<x, y, z, r, compare, a, b, ret, it>>

\* lines 204-219: different digits decide, then the lengths with the leading
\* zeros; else a = an.tail; b = bn.tail; and the loop goes on
NumVerdict ==
    /\ pc = "numverdict"
    /\ Step
    /\ LET an_len == fr.an.tail - fr.an.head
           bn_len == fr.bn.tail - fr.bn.head
       IN  IF fr.cmp # 0
           THEN /\ ret' = IF fr.cmp < 0 THEN -1 ELSE 1
                /\ pc' = "done"
                /\ UNCHANGED <<a, b>>
           ELSE IF an_len # bn_len
           THEN /\ ret' = IF an_len < bn_len THEN -1 ELSE 1
                /\ pc' = "done"
                /\ UNCHANGED <<a, b>>
           ELSE /\ a' = fr.an.tail
                /\ b' = fr.bn.tail
                /\ pc' = "loop"
                /\ ret' = ret
    /\ rd' = {}
    /\ UNCHANGED <<x, y, z, r, compare, fr, it>>

\* lines 224-232: the string with bytes left is the greater
After ==
    /\ pc = "after"
    /\ Step
    /\ \E cb \in Peek(y, b) :
          IF cb # NUL
          THEN /\ rd' = {<<"b", b, "deref">>}
               /\ ret' = -1
          ELSE \E ca \in Peek(x, a) :
                  /\ rd' = {<<"b", b, "deref">>, <<"a", a, "deref">>}
                  /\ ret' = IF ca # NUL THEN 1 ELSE 0
    /\ pc' = "done"
    /\ UNCHANGED <<x, y, z, r, compare, a, b, fr, it>>

CallNext ==
    \/ Entry
    \/ LoopTest
    \/ Classify
    \/ ScanA
    \/ ScanB
    \/ Lengths
    \/ CaseCmp
    \/ Verdict
    \/ Returned
    \/ Recheck
    \/ Mismatch
    \/ ZerosA
    \/ ZerosB
    \/ DigitsA
    \/ DigitsB
    \/ NumLen
    \/ NumCmp
    \/ NumVerdict
    \/ After

Spec == CallInit /\ [][CallNext]_vars

\* the call followed statement by statement returns what natcmp computes
ReturnsNatcmp == pc = "done" => ret = natcmp(x, y, "NULL")

(***************************************************************************)
(* Notions the properties are stated in, defined on the strings            *)
(* themselves and not through the code's operators.                        *)
(***************************************************************************)
Digits == 48 .. 57
FoldByte(c) == IF c \in 65 .. 90 THEN c + 32 ELSE c
Fold(s) == [i \in 1 .. Len(s) |-> FoldByte(s[i])]

\* the length of the longest prefix of SubSeq(s, from, Len(s)) made of bytes
\* in (digit = TRUE) or not in (digit = FALSE) Digits
RunLen(s, from, digit) ==
    LET stops == {i \in from .. Len(s) : (s[i] \in Digits) # digit}
    IN  IF stops = {} THEN Len(s) + 1 - from
        ELSE (CHOOSE i \in stops : \A j \in stops : i <= j) - from

\* the number a sequence of digits denotes
RECURSIVE Value(_)
Value(ds) ==
    IF ds = <<>> THEN 0
    ELSE 10 * Value(SubSeq(ds, 1, Len(ds) - 1)) + (ds[Len(ds)] - 48)

\* the sign of the lexicographic comparison of two pairs of numbers
PairSign(p, q) ==
    IF p[1] # q[1] THEN (IF p[1] < q[1] THEN -1 ELSE 1)
    ELSE IF p[2] # q[2] THEN (IF p[2] < q[2] THEN -1 ELSE 1)
    ELSE 0

IsProperPrefix(s, t) == Len(s) < Len(t) /\ SubSeq(t, 1, Len(s)) = s

\* the first index at which s and t differ, Len + 1 of the shorter when one
\* is a prefix of the other
FirstDiff(s, t) ==
    LET m == IF Len(s) < Len(t) THEN Len(s) ELSE Len(t)
        d == {i \in 1 .. m : s[i] # t[i]}
    IN  IF d = {} THEN m + 1 ELSE CHOOSE i \in d : \A j \in d : i <= j

(***************************************************************************)
(* C1. Antisymmetry: with the default strategy natcmp(x, y) is the         *)
(* negation of natcmp(y, x), so one is 0 exactly when the other is.        *)
(***************************************************************************)
C1_Antisymmetry ==
    r.op = "natcmp" => r.xy = -r.yx /\ (r.xy = 0 <=> r.yx = 0)

\* a pair ordered by a digit run: one side greater, the other less
C1_Witness ==
    /\ r.op = "natcmp"
    /\ r.xy = 1
    /\ r.yx = -1
    /\ \E i \in 1 .. Len(x) : x[i] \in Digits
    /\ \E i \in 1 .. Len(y) : y[i] \notin Digits

(***************************************************************************)
(* C2. Transitivity: with the default strategy, natcmp(x, y) <= 0 and      *)
(* natcmp(y, z) <= 0 imply natcmp(x, z) <= 0.                              *)
(***************************************************************************)
C2_Transitivity ==
    r.op = "natcmp3" /\ r.xy <= 0 /\ r.yz <= 0 => r.xz <= 0

\* a chain x < y < z of three different strings mixing a leading zero, a
\* letter and a prefix
C2_Witness ==
    /\ r.op = "natcmp3"
    /\ r.xy = -1
    /\ r.yz = -1
    /\ r.xz = -1
    /\ x = <<49>>
    /\ y = <<48, 49>>
    /\ z = <<97>>

(***************************************************************************)
(* C3. Digit runs are ordered by numeric value first and by raw run length *)
(* second, whatever follows them: when x = P.X.S and y = P.Y.T, P empty or *)
(* ending in a non-digit, X and Y the whole digit runs after P, and        *)
(* (value(X), length(X)) # (value(Y), length(Y)), natcmp(x, y) is the sign *)
(* of the lexicographic comparison of the two pairs.                       *)
(***************************************************************************)
\* P is a common prefix of x and y, empty or ending in a non-digit, followed
\* by a digit in both
DigitRunsAfter(p) ==
    /\ p < Len(x)
    /\ p < Len(y)
    /\ SubSeq(x, 1, p) = SubSeq(y, 1, p)
    /\ p > 0 => x[p] \notin Digits
    /\ x[p + 1] \in Digits
    /\ y[p + 1] \in Digits

RunKey(s, p) ==
    LET n == RunLen(s, p + 1, TRUE)
    IN  <<Value(SubSeq(s, p + 1, p + n)), n>>

C3_DigitRunOrder ==
    r.op = "natcmp" =>
        \A p \in 0 .. Len(x) :
            DigitRunsAfter(p) /\ RunKey(x, p) # RunKey(y, p)
                => r.xy = PairSign(RunKey(x, p), RunKey(y, p))

\* equal values told apart by the leading zeros, after a common prefix and
\* before different suffixes
C3_Witness ==
    /\ r.op = "natcmp"
    /\ DigitRunsAfter(1)
    /\ RunKey(x, 1) = <<1, 1>>
    /\ RunKey(y, 1) = <<1, 2>>
    /\ r.xy = -1
    /\ Len(x) = 3

(***************************************************************************)
(* C4. Prefix ordering: when x is a proper prefix of y, natcmp(x, y) = -1  *)
(* and natcmp(y, x) = 1, with the default strategy.                        *)
(***************************************************************************)
C4_PrefixOrder ==
    r.op = "natcmp" /\ IsProperPrefix(x, y) => r.xy = -1 /\ r.yx = 1

\* x ends inside a digit run of y made of zeros
C4_Witness ==
    /\ r.op = "natcmp"
    /\ IsProperPrefix(x, y)
    /\ x = <<97, 48>>
    /\ y = <<97, 48, 48>>
    /\ r.xy = -1
    /\ r.yx = 1

(***************************************************************************)
(* C5. Digit before non-digit at the first mismatch.                       *)
(***************************************************************************)
\* at the first index where x and y differ, x has a digit and y a non-digit
\* byte (not its terminator)
DigitMeetsNondigit ==
    LET d == FirstDiff(x, y)
    IN  /\ d <= Len(x)
        /\ d <= Len(y)
        /\ x[d] \in Digits
        /\ y[d] \notin Digits

\* C5 as claimed: if at the first index where x and y differ x has an ASCII
\* digit and y a non-digit byte that is not the terminator, then
\* natcmp(x, y) < 0 and natcmp(y, x) > 0.
C5_Original ==
    r.op = "natcmp" /\ DigitMeetsNondigit => r.xy < 0 /\ r.yx > 0

\* the byte before the first mismatch, if any, is not a digit
MismatchOutsideDigitRun ==
    LET d == FirstDiff(x, y)
    IN  d > 1 => x[d - 1] \notin Digits

\* C5 as amended: if at the first index where x and y differ x has an ASCII
\* digit and y a non-digit byte that is not the terminator, and the common
\* prefix before that index is empty or ends in a non-digit byte, then
\* natcmp(x, y) < 0 and natcmp(y, x) > 0.
C5_DigitBeforeNondigit ==
    r.op = "natcmp" /\ DigitMeetsNondigit /\ MismatchOutsideDigitRun
        => r.xy < 0 /\ r.yx > 0

\* when the common prefix ends in a digit, x continues a digit run that y
\* ends, and x is the greater
DigitRunContinued ==
    r.op = "natcmp" /\ DigitMeetsNondigit /\ ~MismatchOutsideDigitRun
        => r.xy = 1 /\ r.yx = -1

\* the mismatch follows a common non-digit prefix
C5_Witness ==
    /\ r.op = "natcmp"
    /\ DigitMeetsNondigit
    /\ MismatchOutsideDigitRun
    /\ FirstDiff(x, y) = 2
    /\ r.xy = -1
    /\ r.yx = 1

(***************************************************************************)
(* C6. Case-insensitive equality and reflexivity: with the default         *)
(* strategy natcmp(x, y) = 0 whenever x and y are identical after folding  *)
(* A-Z to a-z; in particular natcmp(x, x) = 0.                             *)
(***************************************************************************)
C6_FoldEqual ==
    r.op = "natcmp" /\ Fold(x) = Fold(y) => r.xy = 0 /\ r.yx = 0

\* two different strings that fold to the same one, with a digit run
C6_Witness ==
    /\ r.op = "natcmp"
    /\ x # y
    /\ Fold(x) = Fold(y)
    /\ \E i \in 1 .. Len(x) : x[i] \in Digits
    /\ r.xy = 0

(***************************************************************************)
(* C7. Termination and progress: with the default strategy natcmp          *)
(* terminates; the two cursors never move backward, every iteration of the *)
(* main loop that neither returns nor breaks strictly advances at least    *)
(* one cursor, and the number of iterations is bounded by the combined     *)
(* input length.  Termination is stated as a bound on the number of steps  *)
(* together with the absence of a state, other than the final one, where   *)
(* no step can be taken.                                                   *)
(***************************************************************************)
\* the steps a call on x and y takes at most
StepBound == 3 + 7 * (Len(x) + Len(y))

C7_Termination ==
    /\ [](steps <= StepBound)
    /\ [](pc # "done" => ENABLED CallNext)
    /\ [](it.n <= Len(x) + Len(y))
    /\ [][a' >= a /\ b' >= b]_vars
    /\ [][pc # "entry" /\ pc' = "loop" => a' > it.a \/ b' > it.b]_vars

\* a call that returns 0 after a whole iteration and a second one cut short
\* by the end of the strings
C7_Witness ==
    /\ pc = "done"
    /\ ret = 0
    /\ it.n = 2
    /\ a = Len(x)
    /\ b = Len(y)
    /\ Len(x) = 2

(***************************************************************************)
(* C8. Null-strategy equivalence: natcmp(x, y, NULL) returns what          *)
(* natcmp(x, y, natcmp_nondigit_cmp_ascii) returns.                        *)
(***************************************************************************)
C8_NullStrategy ==
    r.op = "natcmp" => r.xy = r.ascii

\* a pair the case-sensitive strategy of the tests orders differently
C8_Witness ==
    /\ r.op = "natcmp"
    /\ r.xy = r.ascii
    /\ r.xy # natcmp(x, y, "strcmp_cb")

(***************************************************************************)
(* C9. natcmp_nondigit_cmp_ascii returns 0 exactly when the leading        *)
(* non-digit runs have the same length and are equal under case folding;   *)
(* it writes *end_a and *end_b exactly then, each to the first digit or    *)
(* the terminator of its string; otherwise it leaves them unchanged, and   *)
(* when the runs agree on the shorter length the shorter run gets -1.      *)
(***************************************************************************)
C9_NondigitContract ==
    r.op = "nondigit" =>
        LET la == RunLen(x, 1, FALSE)
            lb == RunLen(y, 1, FALSE)
            m == IF la < lb THEN la ELSE lb
            same == Fold(SubSeq(x, 1, m)) = Fold(SubSeq(y, 1, m))
        IN  /\ r.res \in {-1, 0, 1}
            /\ r.res = 0 <=> (la = lb /\ same)
            /\ r.res = 0 => r.end_a = la /\ r.end_b = lb
            /\ r.res # 0 => r.end_a = NULLPTR /\ r.end_b = NULLPTR
            /\ same /\ la < lb => r.res = -1
            /\ same /\ la > lb => r.res = 1

\* equal runs of two bytes differing in case, ended by a digit in x and by
\* the terminator in y
C9_Witness ==
    /\ r.op = "nondigit"
    /\ r.res = 0
    /\ r.end_a = 2
    /\ r.end_b = 2
    /\ Len(x) = 3
    /\ Len(y) = 2
    /\ x[1] # y[1]

\* runs that agree on the shorter length: nothing is written
C9_WitnessShorter ==
    /\ r.op = "nondigit"
    /\ r.res = -1
    /\ RunLen(x, 1, FALSE) = 1
    /\ RunLen(y, 1, FALSE) = 2
    /\ FoldByte(x[1]) = FoldByte(y[1])
    /\ r.end_a = NULLPTR

(***************************************************************************)
(* C10. Memory safety of the scan: with the default strategy every byte    *)
(* natcmp or natcmp_nondigit_cmp_ascii reads lies between offset 0 and the *)
(* terminator of its string, every cursor (a, b, pa, pb, end_a, end_b,     *)
(* head, digits, tail) stays in that range, end_a and end_b being NULL     *)
(* until the strategy writes them, and the look-ahead (s)[1] is read only  *)
(* when *(s) is '0'.                                                       *)
(***************************************************************************)
InString(s, i) == i \in 0 .. Len(s)

StringOf(buffer) == IF buffer = "a" THEN x ELSE y

C10_MemorySafety ==
    /\ \A e \in rd :
          /\ InString(StringOf(e[1]), e[2])
          /\ e[3] = "ahead" =>
                /\ e[2] >= 1
                /\ StringOf(e[1])[e[2]] = 48
                /\ <<e[1], e[2] - 1, "deref">> \in rd
    /\ InString(x, a)
    /\ InString(y, b)
    /\ InString(x, fr.pa)
    /\ InString(y, fr.pb)
    /\ fr.end_a = NULLPTR \/ InString(x, fr.end_a)
    /\ fr.end_b = NULLPTR \/ InString(y, fr.end_b)
    /\ \A f \in {"head", "digits", "tail"} :
          InString(x, fr.an[f]) /\ InString(y, fr.bn[f])

\* the look-ahead reads the terminator of x, after a '0' that ends x
C10_Witness ==
    /\ pc \in {"zeros_a", "zeros_b"}
    /\ <<"a", Len(x), "ahead">> \in rd
    /\ Len(x) = 2
    /\ fr.an.tail = Len(x) - 1

(***************************************************************************)
(* C11. Equality is only case-fold identity: with the default strategy     *)
(* natcmp(x, y) = 0 only if x and y have the same length and are the same  *)
(* byte for byte after folding A-Z to a-z; in particular two strings       *)
(* whose digit runs differ only in their number of leading zeros, such as  *)
(* "a1" and "a01", never compare equal.                                    *)
(***************************************************************************)
\* byte i of s is a leading zero: a '0' followed by a digit, with nothing
\* but '0' between the start of its digit run and itself
LeadingZero(s, i) ==
    /\ s[i] = 48
    /\ i < Len(s)
    /\ s[i + 1] \in Digits
    /\ \A j \in 1 .. i : (\A k \in j .. i : s[k] \in Digits) => s[j] = 48

\* the first n bytes of s with the leading zeros of every digit run removed
RECURSIVE StripZeros(_, _)
StripZeros(s, n) ==
    IF n = 0 THEN <<>>
    ELSE IF LeadingZero(s, n) THEN StripZeros(s, n - 1)
    ELSE Append(StripZeros(s, n - 1), s[n])

\* x and y differ, and differ only in the leading zeros of their digit runs
DifferInLeadingZeros ==
    /\ Fold(x) # Fold(y)
    /\ StripZeros(Fold(x), Len(x)) = StripZeros(Fold(y), Len(y))

C11_EqualOnlyIfFoldEqual ==
    r.op = "natcmp" =>
        /\ r.xy = 0 => Len(x) = Len(y) /\ Fold(x) = Fold(y)
        /\ DifferInLeadingZeros => r.xy # 0 /\ r.yx # 0

\* "a1" against "a01": the same number after the same text, one zero more
C11_Witness ==
    /\ r.op = "natcmp"
    /\ x = <<97, 49>>
    /\ y = <<97, 48, 49>>
    /\ DifferInLeadingZeros
    /\ r.xy = -1
    /\ r.yx = 1

\* two different strings that compare equal, with a digit run and a letter
C11_WitnessEqual ==
    /\ r.op = "natcmp"
    /\ r.xy = 0
    /\ x # y
    /\ Len(x) = MaxLen
    /\ \E i \in 1 .. Len(x) : x[i] \in Digits

=============================================================================
